---- MODULE Spec2Model ----
(***************************************************************************)
(* State-machine model of megalodon-rs: the generic API client             *)
(* (src/src/generic/api_client.rs), the backend detector and the backend   *)
(* factory (src/src/megalodon.rs).                                         *)
(*                                                                         *)
(* Strings that the code concatenates or searches are sequences of tokens  *)
(* (format! is \o, str::contains is a contiguous-subsequence test).        *)
(* Option<T> is a sequence of length at most one: None == << >>,           *)
(* Some(x) == << x >>.  A HeaderMap is a set of <<name, value>> pairs.     *)
(***************************************************************************)
EXTENDS Integers, Sequences, FiniteSets, TLC

None == << >>
Some(x) == << x >>

(***************************************************************************)
(* Bounds.                                                                 *)
(***************************************************************************)
\* number of calls the caller's runtime may have in flight on one client
NumCalls == 2

Calls == 1..NumCalls

(***************************************************************************)
(* Input domains.                                                          *)
(***************************************************************************)
DEFAULT_UA == <<"megalodon">>

BaseUrls == { <<"https", "://", "example.test">>, <<"example.test">> }
Tokens == { None, Some("tok123") }
UserAgents == { None, Some(<<"my-agent">>) }
Paths == { <<"/api/v1/instance">>, <<"/api/v1/accounts/verify_credentials">> }

\* caller-supplied Option<HeaderMap>
CallerHeaders ==
  { None,
    Some({ <<"accept", <<"application/json">>>> }),
    Some({ <<"authorization", <<"Basic ", "dXNlcg==">>>> }) }

Statuses == { 200, 201, 202, 203, 204, 206, 404, 500 }

ResponseHeaders ==
  { {},
    { <<"x-ratelimit-remaining", <<"299">>>>, <<"content-type", <<"application/json">>>> } }

\* A response body: whether the byte stream can be read to its end, whether
\* the bytes are JSON text, and (for JSON objects) the members of the object.
InstanceObj ==
  { <<"title", <<"X">>>>, <<"uri", <<"example.test">>>>, <<"urls", <<"{}">>>>,
    <<"version", <<"4.0.0">>>>, <<"languages", <<"[en]">>>> }
ErrorObj == { <<"error", <<"Record not found">>>> }

Bodies ==
  { [readable |-> TRUE,  json |-> TRUE,  obj |-> InstanceObj, raw |-> <<"instance-json">>],
    [readable |-> TRUE,  json |-> TRUE,  obj |-> ErrorObj,    raw |-> <<"error-json">>],
    [readable |-> TRUE,  json |-> FALSE, obj |-> {},          raw |-> <<"<html>">>],
    [readable |-> FALSE, json |-> FALSE, obj |-> {},          raw |-> <<>>] }

Responses == [ status : Statuses, headers : ResponseHeaders, body : Bodies ]

\* input domains of the concurrent specification
ConcPaths == { <<"/api/v1/instance">> }
ConcHeaders == { None }
ConcResponses ==
  { r \in Responses : /\ r.status \in {200, 206, 404}
                      /\ r.headers # {}
                      /\ r.body.readable
                      /\ r.body.obj # ErrorObj
                      /\ r.status # 200 => ~r.body.json }

VARIABLES
  client,    \* the APIClient: access_token, base_url, client (transport)
  pc,        \* pc[c]: "idle", "sending" (awaiting send()), "done"
  call,      \* call[c]: the verb method called and its arguments
  wire,      \* wire[c]: the requests handed to the transport for this call
  resp,      \* resp[c]: Option of the transport response received
  result,    \* result[c]: the values returned to the caller by this call
  dpc,       \* detector: "start", "get", "json", "post", "done"
  durl,      \* detector: its url argument
  dwire,     \* detector: the probes that went out on the network
  dget,      \* detector: Option of the response to the GET probe
  dlog,      \* detector: what each probe came back with, in order
  dres,      \* detector: the values it returned
  built      \* generator: the calls made so far, with what each returned

clientVars == <<client, pc, call, wire, resp, result>>
detVars == <<dpc, durl, dwire, dget, dlog, dres>>
vars == <<client, pc, call, wire, resp, result, dpc, durl, dwire, dget, dlog, dres, built>>

(***************************************************************************)
(* crate::error and crate::response, after spec.md sections 3, 4.2 and 7.   *)
(***************************************************************************)
new_own(message, kind, url, status, headers) ==
  [ tag |-> "Err", kind |-> kind, message |-> message, url |-> url,
    status |-> status, headers |-> headers, source |-> None ]

\* From<url::ParseError> for Error, applied by `?`
FromParseError(url_str) ==
  [ tag |-> "Err", kind |-> "InvalidURL", message |-> <<"url parse error">>,
    url |-> None, status |-> None, headers |-> None, source |-> None ]

\* From<reqwest::Error> for Error, applied by `?` and by err.into(); the
\* error keeps the reqwest error it was made from
FromReqwestError(err) ==
  [ tag |-> "Err",
    kind |-> IF err.cause = "decode" THEN "JsonError" ELSE "ConnectionError",
    message |-> <<err.cause>>, url |-> None, status |-> None, headers |-> None,
    source |-> Some(err) ]

\* the members a payload type T requires; other members are ignored
RequiredFields == { "title", "uri", "urls", "version" }

FieldsOf(obj) == { p[1] : p \in obj }

\* serde_json decoding of a body as T
DecodeJson(body) ==
  IF body.readable /\ body.json /\ RequiredFields \subseteq FieldsOf(body.obj)
  THEN Some({ p \in body.obj : p[1] \in RequiredFields })
  ELSE None

\* Response::<T>::from_reqwest
from_reqwest(res) ==
  LET json == DecodeJson(res.body)
  IN  IF json # None
      THEN [ tag |-> "Ok", json |-> json[1], headers |-> res.headers ]
      ELSE [ tag |-> "Err", kind |-> "JsonError", message |-> <<"decode">>,
             url |-> None, status |-> None, headers |-> None, source |-> None ]

(***************************************************************************)
(* reqwest primitives used by APIClient::request.                          *)
(***************************************************************************)
\* a reqwest::Error: what failed and the URL of the request it belongs to
ReqwestError(cause, url) == [ cause |-> cause, url |-> url ]

\* the ways a send() can fail on the network
SendFailures == { "connect", "timeout" }

\* Url::parse: an absolute URL needs a scheme, "://" and a host
UrlParse(s) ==
  IF Len(s) >= 3 /\ s[1] \in {"http", "https"} /\ s[2] = "://"
  THEN Some([ scheme |-> s[1], host |-> s[3], path |-> SubSeq(s, 4, Len(s)) ])
  ELSE None

\* RequestBuilder::bearer_auth: appends Authorization: Bearer <token>
bearer_auth(hdrs, token) ==
  hdrs \cup { <<"authorization", <<"Bearer ", token>>>> }

\* RequestBuilder::headers: the given map replaces the entries already set
\* under the same names and adds the others
headers_merge(hdrs, given) ==
  { p \in hdrs : p[1] \notin FieldsOf(given) } \cup given

\* res.text(): the body as text, or an error when it cannot be read
Text(body) == IF body.readable THEN Some(body.raw) ELSE None

\* APIClient::new
New(base_url, access_token, user_agent) ==
  [ access_token |-> access_token,
    base_url |-> base_url,
    client |-> [ user_agent |-> IF user_agent = None THEN DEFAULT_UA ELSE user_agent[1] ] ]

\* BuildRequest with `req.headers(headers)` taken to set the header map
BuildRequest_HeadersSet(self, url, headers, method, params) ==
  LET req1 == IF self.access_token # None
              THEN bearer_auth({}, self.access_token[1]) ELSE {}
      req2 == IF headers # None THEN headers[1] ELSE req1
  IN  [ method |-> method, url |-> url, headers |-> req2, body |-> params,
        user_agent |-> self.client.user_agent ]

\* request, lines 55-67: the request handed to send()
BuildRequest(self, url, headers, method, params) ==
  LET req0 == {}
      req1 == IF self.access_token # None
              THEN bearer_auth(req0, self.access_token[1]) ELSE req0
      req2 == IF headers # None THEN headers_merge(req1, headers[1]) ELSE req1
  IN  [ method |-> method, url |-> url, headers |-> req2, body |-> params,
        user_agent |-> self.client.user_agent ]

\* Classify without the PARTIAL_CONTENT arm
Classify_No206(url_str, res) ==
  IF res.status \in {200, 201, 202, 204}
  THEN from_reqwest(res)
  ELSE new_own(IF Text(res.body) # None THEN Text(res.body)[1] ELSE <<"Unknown error">>,
               "HTTPStatusError", Some(url_str), Some(res.status), Some(res.headers))

\* Classify with NO_CONTENT missing from the success arm
Classify_No204(url_str, res) ==
  CASE res.status \in {200, 201, 202} -> from_reqwest(res)
    [] res.status = 206 ->
         new_own(<<"The requested resource is still being processed">>,
                 "HTTPPartialContentError", Some(url_str), Some(res.status), Some(res.headers))
    [] OTHER ->
         new_own(IF Text(res.body) # None THEN Text(res.body)[1] ELSE <<"Unknown error">>,
                 "HTTPStatusError", Some(url_str), Some(res.status), Some(res.headers))

\* Classify with the success arm taken for every 2xx status but 206
Classify_Any2xx(url_str, res) ==
  CASE res.status = 206 ->
         new_own(<<"The requested resource is still being processed">>,
                 "HTTPPartialContentError", Some(url_str), Some(res.status), Some(res.headers))
    [] res.status # 206 /\ res.status \in 200..299 -> from_reqwest(res)
    [] OTHER ->
         new_own(IF Text(res.body) # None THEN Text(res.body)[1] ELSE <<"Unknown error">>,
                 "HTTPStatusError", Some(url_str), Some(res.status), Some(res.headers))

\* request, lines 71-105: classification of a received response
Classify(url_str, res) ==
  LET res_headers == res.headers
      status == res.status
  IN  CASE status \in {200, 201, 202, 204} -> from_reqwest(res)
        [] status = 206 ->
             new_own(<<"The requested resource is still being processed">>,
                     "HTTPPartialContentError", Some(url_str), Some(status), Some(res_headers))
        [] OTHER ->
             IF Text(res.body) # None
             THEN new_own(Text(res.body)[1], "HTTPStatusError",
                          Some(url_str), Some(status), Some(res_headers))
             ELSE new_own(<<"Unknown error">>, "HTTPStatusError",
                          Some(url_str), Some(status), Some(res_headers))

\* Request without the early return of `Url::parse(..)?`
Request_NoEarlyReturn(c, verb, path, headers, method, params) ==
  LET url_str == client.base_url \o path
      url == UrlParse(url_str)
  IN  /\ pc[c] \in {"idle", "done"}
      /\ call' = [call EXCEPT ![c] = Some([ verb |-> verb, path |-> path, headers |-> headers,
                                            method |-> method, params |-> params ])]
      /\ resp' = [resp EXCEPT ![c] = None]
      /\ pc' = [pc EXCEPT ![c] = "sending"]
      /\ wire' = [wire EXCEPT ![c] = << BuildRequest(client, url, headers, method, params) >>]
      /\ result' = [result EXCEPT ![c] =
                      IF url = None THEN << FromParseError(url_str) >> ELSE << >>]
      /\ UNCHANGED <<client, detVars, built>>

\* Request with base_url rebound to the origin of the parsed URL
Request_RebindsBase(c, verb, path, headers, method, params) ==
  LET url_str == client.base_url \o path
      url == UrlParse(url_str)
  IN  /\ pc[c] \in {"idle", "done"}
      /\ call' = [call EXCEPT ![c] = Some([ verb |-> verb, path |-> path, headers |-> headers,
                                            method |-> method, params |-> params ])]
      /\ resp' = [resp EXCEPT ![c] = None]
      /\ IF url = None
         THEN /\ pc' = [pc EXCEPT ![c] = "done"]
              /\ wire' = [wire EXCEPT ![c] = << >>]
              /\ result' = [result EXCEPT ![c] = << FromParseError(url_str) >>]
              /\ client' = client
         ELSE /\ pc' = [pc EXCEPT ![c] = "sending"]
              /\ wire' = [wire EXCEPT ![c] =
                            << BuildRequest(client, url[1], headers, method, params) >>]
              /\ result' = [result EXCEPT ![c] = << >>]
              /\ client' = [client EXCEPT !.base_url = <<url_str[1], url_str[2], url_str[3]>>
                                                        \o <<"/">>]
      /\ UNCHANGED <<detVars, built>>

(***************************************************************************)
(* APIClient::request, up to the suspension at send().await                *)
(***************************************************************************)
Request(c, verb, path, headers, method, params) ==
  LET url_str == client.base_url \o path
      url == UrlParse(url_str)
  IN  /\ pc[c] \in {"idle", "done"}
      /\ call' = [call EXCEPT ![c] = Some([ verb |-> verb, path |-> path, headers |-> headers,
                                            method |-> method, params |-> params ])]
      /\ resp' = [resp EXCEPT ![c] = None]
      /\ IF url = None
         THEN /\ pc' = [pc EXCEPT ![c] = "done"]
              /\ wire' = [wire EXCEPT ![c] = << >>]
              /\ result' = [result EXCEPT ![c] = << FromParseError(url_str) >>]
         ELSE /\ pc' = [pc EXCEPT ![c] = "sending"]
              /\ wire' = [wire EXCEPT ![c] =
                            << BuildRequest(client, url[1], headers, method, params) >>]
              /\ result' = [result EXCEPT ![c] = << >>]
      /\ UNCHANGED <<client, detVars, built>>

Get(c, path, headers)           == Request(c, "get", path, headers, "GET", None)
Post(c, path, headers)          == Request(c, "post", path, headers, "POST", Some("Json"))
PostMultipart(c, path, headers) == Request(c, "post_multipart", path, headers, "POST", Some("Form"))
Put(c, path, headers)           == Request(c, "put", path, headers, "PUT", Some("Json"))
PutMultipart(c, path, headers)  == Request(c, "put_multipart", path, headers, "PUT", Some("Form"))
Patch(c, path, headers)         == Request(c, "patch", path, headers, "PATCH", Some("Json"))
Delete(c, path, headers)        == Request(c, "delete", path, headers, "DELETE", Some("Json"))

\* SendErr with one more attempt after a failed send()
SendErr_Retry(c, cause) ==
  /\ pc[c] = "sending"
  /\ IF Len(wire[c]) < 2
     THEN /\ wire' = [wire EXCEPT ![c] = Append(wire[c], wire[c][1])]
          /\ UNCHANGED <<pc, result>>
     ELSE /\ pc' = [pc EXCEPT ![c] = "done"]
          /\ result' = [result EXCEPT ![c] =
                          Append(result[c], FromReqwestError(ReqwestError(cause, wire[c][1].url)))]
          /\ wire' = wire
  /\ UNCHANGED <<client, call, resp, detVars, built>>

\* send().await returns Err: `?` returns the converted error
SendErr(c, cause) ==
  /\ pc[c] = "sending"
  /\ pc' = [pc EXCEPT ![c] = "done"]
  /\ result' = [result EXCEPT ![c] =
                  Append(result[c], FromReqwestError(ReqwestError(cause, wire[c][1].url)))]
  /\ UNCHANGED <<client, call, wire, resp, detVars, built>>

\* send().await returns Ok(res): lines 71-105
SendOk(c, res) ==
  /\ pc[c] = "sending"
  /\ pc' = [pc EXCEPT ![c] = "done"]
  /\ resp' = [resp EXCEPT ![c] = Some(res)]
  /\ result' = [result EXCEPT ![c] =
                  Append(result[c], Classify(client.base_url \o call[c][1].path, res))]
  /\ UNCHANGED <<client, call, wire, detVars, built>>

(***************************************************************************)
(* detector (src/src/megalodon.rs)                                         *)
(***************************************************************************)
DetUrls == { <<"https", "://", "example.test">>, <<"http", "://", "misskey.test">>,
             <<"example.test">> }

Versions ==
  { <<"4.0.0">>,
    <<"2.7.2 (compatible; ", "Pleroma", " 2.4.2)">>,
    <<"Pleroma">>,
    <<"2.7.2 (compatible; ", "pleroma", ")">> }

InstanceWith(version) ==
  { <<"title", <<"X">>>>, <<"uri", <<"example.test">>>>, <<"urls", <<"{}">>>>,
    <<"version", version>> }

DetBodies ==
  { [readable |-> TRUE, json |-> TRUE, obj |-> InstanceWith(v), raw |-> <<"instance-json">>]
      : v \in Versions }
  \cup
  { [readable |-> TRUE,  json |-> TRUE,  obj |-> ErrorObj, raw |-> <<"error-json">>],
    [readable |-> TRUE,  json |-> TRUE,
     obj |-> { <<"version", <<"Pleroma">>>> }, raw |-> <<"version-only-json">>],
    [readable |-> TRUE,  json |-> FALSE, obj |-> {}, raw |-> <<"<html>">>],
    [readable |-> FALSE, json |-> FALSE, obj |-> {}, raw |-> <<>>] }

DetResponses == [ status : {200, 404, 500}, headers : { {} }, body : DetBodies ]

\* the ways a probe can fail once its URL is built
ProbeFailures == { "connect", "timeout" }

\* str::contains: pat occurs in s as a contiguous run
Contains(s, pat) ==
  \E i \in 1..(Len(s) - Len(pat) + 1) : SubSeq(s, i, i + Len(pat) - 1) = pat

\* the member of a decoded object under the given name
Field(obj, name) == (CHOOSE p \in obj : p[1] = name)[2]

\* Response::json::<Instance>()
JsonInstance(res) ==
  IF res.body.readable /\ res.body.json
     /\ {"title", "uri", "urls", "version"} \subseteq FieldsOf(res.body.obj)
  THEN Some([ title |-> Field(res.body.obj, "title"), uri |-> Field(res.body.obj, "uri"),
              urls |-> Field(res.body.obj, "urls"), version |-> Field(res.body.obj, "version") ])
  ELSE None

\* MatchObj with the version compared for equality with the marker
MatchObj_Equals(obj, url) ==
  IF obj # None
  THEN IF obj[1].version = <<"Pleroma">>
       THEN [ tag |-> "Ok", sns |-> "Pleroma" ]
       ELSE [ tag |-> "Ok", sns |-> "Mastodon" ]
  ELSE FromReqwestError(ReqwestError("decode", url))

\* detector, lines 27-36: the match on the decoded object
MatchObj(obj, url) ==
  IF obj # None
  THEN IF Contains(obj[1].version, <<"Pleroma">>)
       THEN [ tag |-> "Ok", sns |-> "Pleroma" ]
       ELSE [ tag |-> "Ok", sns |-> "Mastodon" ]
  ELSE FromReqwestError(ReqwestError("decode", url))

\* detector, line 22: reqwest::get is called; a request goes out when the
\* URL can be built
Detector(url) ==
  LET u == UrlParse(url \o <<"/api/v1/instance">>)
  IN  /\ dpc \in {"start", "done"}
      /\ durl' = url
      /\ dpc' = "get"
      /\ dwire' = IF u # None THEN << [ method |-> "GET", url |-> u[1] ] >> ELSE << >>
      /\ dget' = None
      /\ dlog' = << >>
      /\ dres' = << >>
      /\ UNCHANGED <<clientVars, built>>

\* line 25: the GET probe received a response; res.json() is awaited
GetOk(res) ==
  /\ dpc = "get"
  /\ dwire # << >>
  /\ dpc' = "json"
  /\ dget' = Some(res)
  /\ dlog' = Append(dlog, [ ok |-> TRUE, status |-> Some(res.status), err |-> None ])
  /\ UNCHANGED <<durl, dwire, dres, clientVars, built>>

\* Json with a decode failure handled like a failed GET probe
Json_FallsBack ==
  LET obj == JsonInstance(dget[1])
      u == UrlParse(durl \o <<"/api/meta">>)
  IN  /\ dpc = "json"
      /\ IF obj # None
         THEN /\ dpc' = "done"
              /\ dres' = Append(dres, MatchObj(obj, UrlParse(durl \o <<"/api/v1/instance">>)))
              /\ dwire' = dwire
         ELSE /\ dpc' = "post"
              /\ dwire' = Append(dwire, [ method |-> "POST", url |-> u[1] ])
              /\ dres' = dres
      /\ UNCHANGED <<durl, dget, dlog, clientVars, built>>

\* lines 26-36: res.json() completes
Json ==
  /\ dpc = "json"
  /\ dpc' = "done"
  /\ dres' = Append(dres, MatchObj(JsonInstance(dget[1]), UrlParse(durl \o <<"/api/v1/instance">>)))
  /\ UNCHANGED <<durl, dwire, dget, dlog, clientVars, built>>

\* lines 38-40: the GET probe failed; the POST probe is sent
GetErr(cause) ==
  LET u == UrlParse(durl \o <<"/api/meta">>)
  IN  /\ dpc = "get"
      /\ (dwire = << >>) = (cause = "builder")
      /\ dpc' = "post"
      /\ dwire' = IF u # None THEN Append(dwire, [ method |-> "POST", url |-> u[1] ]) ELSE dwire
      /\ dlog' = Append(dlog, [ ok |-> FALSE, status |-> None,
                                err |-> Some(ReqwestError(cause,
                                               UrlParse(durl \o <<"/api/v1/instance">>))) ])
      /\ UNCHANGED <<durl, dget, dres, clientVars, built>>

\* line 42: the POST probe received a response
PostOk(res) ==
  /\ dpc = "post"
  /\ UrlParse(durl \o <<"/api/meta">>) # None
  /\ dpc' = "done"
  /\ dres' = Append(dres, [ tag |-> "Ok", sns |-> "Misskey" ])
  /\ dlog' = Append(dlog, [ ok |-> TRUE, status |-> Some(res.status), err |-> None ])
  /\ UNCHANGED <<durl, dwire, dget, clientVars, built>>

\* line 43: the POST probe failed
PostErr(cause) ==
  /\ dpc = "post"
  /\ (UrlParse(durl \o <<"/api/meta">>) = None) = (cause = "builder")
  /\ dpc' = "done"
  /\ dres' = Append(dres, FromReqwestError(ReqwestError(cause, UrlParse(durl \o <<"/api/meta">>))))
  /\ dlog' = Append(dlog, [ ok |-> FALSE, status |-> None,
                            err |-> Some(ReqwestError(cause, UrlParse(durl \o <<"/api/meta">>))) ])
  /\ UNCHANGED <<durl, dwire, dget, clientVars, built>>

(***************************************************************************)
(* generator (src/src/megalodon.rs)                                        *)
(***************************************************************************)
\* number of generator calls kept for comparison
MaxBuilt == 2

SNS == { "Mastodon", "Pleroma", "Misskey" }

\* generator: the match has the single arm `_`
generator(sns, base_url, access_token, user_agent) ==
  [ impl |-> "mastodon::Mastodon",
    base_url |-> base_url, access_token |-> access_token, user_agent |-> user_agent ]

Generator(sns, base_url, access_token, user_agent) ==
  /\ Len(built) < MaxBuilt
  /\ built' = Append(built, [ sns |-> sns,
                              params |-> <<base_url, access_token, user_agent>>,
                              backends |-> << generator(sns, base_url, access_token, user_agent) >> ])
  /\ UNCHANGED <<clientVars, detVars>>

(***************************************************************************)
(* Specifications.                                                         *)
(***************************************************************************)
ClientIdle ==
  /\ pc = [c \in Calls |-> "idle"]
  /\ call = [c \in Calls |-> None]
  /\ wire = [c \in Calls |-> << >>]
  /\ resp = [c \in Calls |-> None]
  /\ result = [c \in Calls |-> << >>]

DetectorIdle ==
  /\ dpc = "start"
  /\ durl = << >>
  /\ dwire = << >>
  /\ dget = None
  /\ dlog = << >>
  /\ dres = << >>

Init ==
  /\ client \in { New(b, t, u) : b \in BaseUrls, t \in Tokens, u \in UserAgents }
  /\ ClientIdle
  /\ DetectorIdle
  /\ built = << >>

\* one call at a time on the client
Next ==
  \/ \E p \in Paths, h \in CallerHeaders : Get(1, p, h)
  \/ \E p \in Paths, h \in CallerHeaders : Post(1, p, h)
  \/ \E p \in Paths, h \in CallerHeaders : PostMultipart(1, p, h)
  \/ \E p \in Paths, h \in CallerHeaders : Put(1, p, h)
  \/ \E p \in Paths, h \in CallerHeaders : PutMultipart(1, p, h)
  \/ \E p \in Paths, h \in CallerHeaders : Patch(1, p, h)
  \/ \E p \in Paths, h \in CallerHeaders : Delete(1, p, h)
  \/ \E e \in SendFailures : SendErr(1, e)
  \/ \E r \in Responses : SendOk(1, r)

Spec == Init /\ [][Next]_vars

\* calls issued concurrently through one client
NextConcurrent ==
  \/ \E c \in Calls, p \in ConcPaths, h \in ConcHeaders : Get(c, p, h)
  \/ \E c \in Calls, p \in ConcPaths, h \in ConcHeaders : Post(c, p, h)
  \/ \E c \in Calls, p \in ConcPaths, h \in ConcHeaders : PostMultipart(c, p, h)
  \/ \E c \in Calls, p \in ConcPaths, h \in ConcHeaders : Put(c, p, h)
  \/ \E c \in Calls, p \in ConcPaths, h \in ConcHeaders : PutMultipart(c, p, h)
  \/ \E c \in Calls, p \in ConcPaths, h \in ConcHeaders : Patch(c, p, h)
  \/ \E c \in Calls, p \in ConcPaths, h \in ConcHeaders : Delete(c, p, h)
  \/ \E c \in Calls : SendErr(c, "connect")
  \/ \E c \in Calls, r \in ConcResponses : SendOk(c, r)

InitConcurrent ==
  /\ client \in { New(b, t, None) : b \in BaseUrls, t \in Tokens }
  /\ ClientIdle
  /\ DetectorIdle
  /\ built = << >>

SpecConcurrent == InitConcurrent /\ [][NextConcurrent]_vars

InitDetector ==
  /\ client = New(<<"https", "://", "example.test">>, None, None)
  /\ ClientIdle
  /\ DetectorIdle
  /\ built = << >>

NextDetector ==
  \/ \E u \in DetUrls : Detector(u)
  \/ \E r \in DetResponses : GetOk(r)
  \/ Json
  \/ \E e \in ProbeFailures \cup {"builder"} : GetErr(e)
  \/ \E r \in DetResponses : PostOk(r)
  \/ \E e \in ProbeFailures \cup {"builder"} : PostErr(e)

SpecDetector == InitDetector /\ [][NextDetector]_vars

NextGenerator ==
  \E s \in SNS, b \in BaseUrls, t \in Tokens, u \in UserAgents : Generator(s, b, t, u)

SpecGenerator == InitDetector /\ [][NextGenerator]_vars

(***************************************************************************)
(* Properties of APIClient.                                                *)
(***************************************************************************)
Done(c) == pc[c] = "done"
UrlStr(c) == client.base_url \o call[c][1].path
Responded(c) == Done(c) /\ resp[c] # None
AuthEntries(hdrs) == { p \in hdrs : p[1] = "authorization" }
Bearer(token) == <<"authorization", <<"Bearer ", token>>>>
GivenHeaders(c) == IF call[c][1].headers = None THEN {} ELSE call[c][1].headers[1]

\* C1: whatever the verb method and the body, a response with status 206
\* makes the call return one error, of kind HTTPPartialContentError, that
\* carries the request URL, the status 206 and the response headers.
C1_PartialContent ==
  \A c \in Calls :
    (Responded(c) /\ resp[c][1].status = 206) =>
      /\ Len(result[c]) = 1
      /\ result[c][1].tag = "Err"
      /\ result[c][1].kind = "HTTPPartialContentError"
      /\ result[c][1].kind # "HTTPStatusError"
      /\ result[c][1].url = Some(UrlStr(c))
      /\ result[c][1].status = Some(206)
      /\ result[c][1].headers = Some(resp[c][1].headers)

C1_Witness ==
  \E c \in Calls :
    /\ Responded(c) /\ resp[c][1].status = 206
    /\ call[c][1].verb = "put_multipart"
    /\ resp[c][1].body.json /\ resp[c][1].headers # {}
    /\ result[c][1].kind = "HTTPPartialContentError"

\* C2: a response with status 200, 201, 202 or 204 makes the call return an
\* envelope with exactly the response's headers and the decoded body, or,
\* when the body does not decode, one error of the deserialization kind.
C2_SuccessEnvelope ==
  \A c \in Calls :
    (Responded(c) /\ resp[c][1].status \in {200, 201, 202, 204}) =>
      /\ Len(result[c]) = 1
      /\ IF DecodeJson(resp[c][1].body) # None
         THEN /\ result[c][1].tag = "Ok"
              /\ result[c][1].headers = resp[c][1].headers
              /\ result[c][1].json = DecodeJson(resp[c][1].body)[1]
         ELSE /\ result[c][1].tag = "Err"
              /\ result[c][1].kind = "JsonError"

C2_Witness ==
  \E c \in Calls :
    /\ Responded(c) /\ resp[c][1].status = 204
    /\ resp[c][1].headers # {}
    /\ result[c][1].tag = "Ok"
    /\ result[c][1].headers = resp[c][1].headers
    /\ <<"title", <<"X">>>> \in result[c][1].json

\* C3: a response with any status outside 200, 201, 202, 204 and 206 makes
\* the call return one error of kind HTTPStatusError with the request URL,
\* that status, the response headers and, as message, the body text, or
\* "Unknown error" when the body cannot be read.
C3_StatusError ==
  \A c \in Calls :
    (Responded(c) /\ resp[c][1].status \notin {200, 201, 202, 204, 206}) =>
      /\ Len(result[c]) = 1
      /\ result[c][1].tag = "Err"
      /\ result[c][1].kind = "HTTPStatusError"
      /\ result[c][1].url = Some(UrlStr(c))
      /\ result[c][1].status = Some(resp[c][1].status)
      /\ result[c][1].headers = Some(resp[c][1].headers)
      /\ result[c][1].message = IF resp[c][1].body.readable
                                THEN resp[c][1].body.raw ELSE <<"Unknown error">>

C3_Witness ==
  \E c \in Calls :
    /\ Responded(c) /\ resp[c][1].status = 203
    /\ ~resp[c][1].body.readable
    /\ result[c][1].kind = "HTTPStatusError"
    /\ result[c][1].message = <<"Unknown error">>
    /\ result[c][1].status = Some(203)

C7_ExactlyOneRoundTrip ==
  \A c \in Calls : Done(c) => Len(wire[c]) = 1

\* C7 amended: no call sends a second request; a finished call has made
\* exactly one round trip, except that a call whose URL does not parse has
\* made none.
C7_NoRetry ==
  \A c \in Calls :
    /\ Len(wire[c]) <= 1
    /\ pc[c] = "sending" => Len(wire[c]) = 1
    /\ Done(c) => Len(wire[c]) = IF UrlParse(UrlStr(c)) = None THEN 0 ELSE 1

C7_Witness ==
  \E c \in Calls :
    /\ Done(c) /\ resp[c] = None /\ Len(wire[c]) = 1
    /\ result[c][1].kind = "ConnectionError"

\* C9: a finished call has returned exactly one value and an unfinished one
\* none; the value is the error of the first failing stage in the order URL
\* parse (InvalidURL, nothing sent), send (ConnectionError, nothing
\* classified or decoded), status classification, body decoding, and an
\* envelope when no stage fails.
C9_FirstFailingStage ==
  \A c \in Calls :
    /\ ~Done(c) => result[c] = << >>
    /\ Done(c) =>
         /\ Len(result[c]) = 1
         /\ result[c][1].tag \in {"Ok", "Err"}
         /\ CASE UrlParse(UrlStr(c)) = None ->
                   /\ result[c][1].tag = "Err" /\ result[c][1].kind = "InvalidURL"
                   /\ wire[c] = << >> /\ resp[c] = None
              [] UrlParse(UrlStr(c)) # None /\ resp[c] = None ->
                   /\ result[c][1].tag = "Err" /\ result[c][1].kind = "ConnectionError"
                   /\ result[c][1].status = None
              [] UrlParse(UrlStr(c)) # None /\ resp[c] # None ->
                   IF resp[c][1].status \notin {200, 201, 202, 204}
                   THEN /\ result[c][1].tag = "Err"
                        /\ result[c][1].kind \in {"HTTPPartialContentError", "HTTPStatusError"}
                   ELSE IF DecodeJson(resp[c][1].body) = None
                        THEN result[c][1].tag = "Err" /\ result[c][1].kind = "JsonError"
                        ELSE result[c][1].tag = "Ok"

C9_Witness ==
  \E c \in Calls :
    /\ Done(c)
    /\ UrlParse(UrlStr(c)) = None
    /\ result[c] = << FromParseError(UrlStr(c)) >>
    /\ wire[c] = << >>

\* the values a call can return when made alone on client self, given the
\* response to it (None: the send failed)
Alone(self, rq, rs) ==
  LET url_str == self.base_url \o rq.path
  IN  IF UrlParse(url_str) = None THEN { FromParseError(url_str) }
      ELSE IF rs = None
           THEN { FromReqwestError(ReqwestError(e, UrlParse(url_str)[1])) : e \in SendFailures }
           ELSE { Classify(url_str, rs[1]) }

\* C10: no step of any interleaving of calls changes the client, and the
\* value a call returns is the one the same call, given the same transport
\* response, returns when made alone on the client as constructed.
C10_Independent ==
  [][ /\ client' = client
      /\ \A c \in Calls :
           (pc'[c] = "done") =>
             /\ Len(result'[c]) = 1
             /\ result'[c][1] \in Alone(client, call'[c][1], resp'[c]) ]_vars

C10_Witness ==
  \E c, d \in Calls :
    /\ c # d
    /\ pc[d] = "sending"
    /\ Done(c) /\ result[c][1].tag = "Ok"
    /\ call[c][1].verb # call[d][1].verb

(***************************************************************************)
(* Properties of detector.                                                 *)
(***************************************************************************)
DDone == dpc = "done"
PostSent == \E i \in 1..Len(dwire) : dwire[i].method = "POST"

\* C5: a decodable GET response gives Pleroma when its version contains
\* "Pleroma" and Mastodon when it does not; a failed GET probe followed by
\* an answered POST probe gives Misskey; two failed probes give the error of
\* the POST probe.
C5_Classification ==
  DDone =>
    /\ Len(dres) = 1
    /\ (dget # None /\ JsonInstance(dget[1]) # None) =>
         dres[1] = [ tag |-> "Ok",
                     sns |-> IF Contains(Field(dget[1].body.obj, "version"), <<"Pleroma">>)
                             THEN "Pleroma" ELSE "Mastodon" ]
    /\ (Len(dlog) = 2 /\ ~dlog[1].ok /\ dlog[2].ok) =>
         dres[1] = [ tag |-> "Ok", sns |-> "Misskey" ]
    /\ (Len(dlog) = 2 /\ ~dlog[1].ok /\ ~dlog[2].ok) =>
         /\ dres[1] = FromReqwestError(dlog[2].err[1])
         /\ dlog[1].err # dlog[2].err => dres[1] # FromReqwestError(dlog[1].err[1])

C5_Witness ==
  /\ DDone
  /\ dget # None /\ JsonInstance(dget[1]) # None
  /\ Len(Field(dget[1].body.obj, "version")) > 1
  /\ dres = << [ tag |-> "Ok", sns |-> "Pleroma" ] >>

\* C8: at most two probes go out, the GET probe first; the POST probe goes
\* out only after the GET probe failed without a response; once the GET
\* probe has a response no POST probe goes out and the result is never
\* Misskey, and a response that does not decode gives the decode error
\* after one round trip.
C8_ShortCircuit ==
  /\ Len(dwire) <= 2
  /\ dwire # << >> => dwire[1].method = "GET"
  /\ PostSent => (Len(dwire) = 2 /\ dget = None /\ dlog # << >> /\ ~dlog[1].ok)
  /\ dget # None =>
       /\ ~PostSent
       /\ Len(dwire) = 1
       /\ DDone => dres # << [ tag |-> "Ok", sns |-> "Misskey" ] >>
       /\ (DDone /\ JsonInstance(dget[1]) = None) =>
            /\ Len(dres) = 1
            /\ dres[1].tag = "Err"
            /\ dres[1].source # None /\ dres[1].source[1].cause = "decode"

C8_Witness ==
  /\ DDone
  /\ dget # None /\ JsonInstance(dget[1]) = None /\ dget[1].body.json
  /\ Len(dwire) = 1
  /\ dres[1].tag = "Err"

(***************************************************************************)
(* Properties of generator.                                                *)
(***************************************************************************)
\* C6: each call of generator constructs one backend, and two calls with
\* the same connection parameters and different kinds return different
\* implementations.
C6_OwnImplementation ==
  \A i, j \in 1..Len(built) :
    /\ Len(built[i].backends) = 1
    /\ (built[i].sns # built[j].sns /\ built[i].params = built[j].params) =>
         built[i].backends[1].impl # built[j].backends[1].impl

====
